---- MODULE Spec2Model ----
(***************************************************************************)
(* GraphQLScraper (src/main.py): schema-driven query synthesis and the     *)
(* two-pass execution engine of scrape_everything.                         *)
(*                                                                         *)
(* Python strings on which the code does string work (startswith, `in`,    *)
(* lower, capitalize, f-string assembly) are sequences of one-character    *)
(* strings.  Strings that are only stored or compared whole (JSON keys,    *)
(* JSON string values, error messages) are TLA+ strings.  An optional      *)
(* value (None or a value) is a sequence of length 0 or 1.                 *)
(***************************************************************************)
EXTENDS Integers, Sequences, FiniteSets, TLC

(***************************************************************************)
(* Bounds of the model.                                                    *)
(***************************************************************************)
MaxQueryFields == 2
MaxMutationFields == 1

(***************************************************************************)
(* Character strings.                                                      *)
(***************************************************************************)
UpperCase == <<"A","B","C","D","E","F","G","H","I","J","K","L","M",
               "N","O","P","Q","R","S","T","U","V","W","X","Y","Z">>
LowerCase == <<"a","b","c","d","e","f","g","h","i","j","k","l","m",
               "n","o","p","q","r","s","t","u","v","w","x","y","z">>

\* str.lower(), one character
LowerChar(c) ==
    IF \E i \in 1..26 : UpperCase[i] = c
    THEN LowerCase[CHOOSE i \in 1..26 : UpperCase[i] = c]
    ELSE c

\* str.upper(), one character
UpperChar(c) ==
    IF \E i \in 1..26 : LowerCase[i] = c
    THEN UpperCase[CHOOSE i \in 1..26 : LowerCase[i] = c]
    ELSE c

\* str.lower()
Lower(s) == [i \in 1..Len(s) |-> LowerChar(s[i])]

\* str.capitalize(): first character upper-cased, the rest lower-cased
Capitalize(s) == [i \in 1..Len(s) |-> IF i = 1 THEN UpperChar(s[i]) ELSE LowerChar(s[i])]

\* s.startswith(p)
StartsWith(s, p) == Len(s) >= Len(p) /\ SubSeq(s, 1, Len(p)) = p

\* sub in s
Contains(s, sub) ==
    \E i \in 1..(Len(s) - Len(sub) + 1) : SubSeq(s, i, i + Len(sub) - 1) = sub

\* s.replace(old, new) for a string holding old at most once
Replace(s, old, new) ==
    IF Contains(s, old)
    THEN LET i == CHOOSE j \in 1..(Len(s) - Len(old) + 1) :
                      /\ SubSeq(s, j, j + Len(old) - 1) = old
                      /\ \A k \in 1..(j - 1) : SubSeq(s, k, k + Len(old) - 1) # old
         IN  SubSeq(s, 1, i - 1) \o new \o SubSeq(s, i + Len(old), Len(s))
    ELSE s

\* sep.join(parts)
RECURSIVE Join(_, _)
Join(parts, sep) ==
    IF parts = <<>> THEN <<>>
    ELSE IF Len(parts) = 1 THEN parts[1]
    ELSE parts[1] \o sep \o Join(Tail(parts), sep)

s_query == <<"q","u","e","r","y">>
s_mutation == <<"m","u","t","a","t","i","o","n">>
s_subscription == <<"s","u","b","s","c","r","i","p","t","i","o","n">>
s_Type == <<"T","y","p","e">>
s_queryType == s_query \o s_Type
s_mutationType == s_mutation \o s_Type
s_subscriptionType == s_subscription \o s_Type
s_dunder == <<"_","_">>
s_var == <<"v","a","r","_">>
s_id == <<"i","d">>
s_username == <<"u","s","e","r","n","a","m","e">>
s_limit == <<"l","i","m","i","t">>
s_term == <<"t","e","r","m">>
s_users == <<"u","s","e","r","s">>
s_user == <<"u","s","e","r">>
s_version == <<"v","e","r","s","i","o","n">>
s_search == <<"s","e","a","r","c","h">>
s_friends == <<"f","r","i","e","n","d","s">>
s_createUser == <<"c","r","e","a","t","e","U","s","e","r">>
s_reset == <<"r","e","s","e","t">>
s_userAdded == <<"u","s","e","r","A","d","d","e","d">>
s_User == <<"U","s","e","r">>
s_ID == <<"I","D">>
s_String == <<"S","t","r","i","n","g">>
s_Int == <<"I","n","t">>
s_Float == <<"F","l","o","a","t">>
s_Boolean == <<"B","o","o","l","e","a","n">>
s_Query == <<"Q","u","e","r","y">>
s_Mutation == <<"M","u","t","a","t","i","o","n">>
s_Subscription == <<"S","u","b","s","c","r","i","p","t","i","o","n">>

(***************************************************************************)
(* JSON / Python values, tagged by runtime type.  A bool carries 0 or 1,   *)
(* the value it has as a Python int.                                       *)
(***************************************************************************)
JStr(s) == [t |-> "str", v |-> s]
JInt(n) == [t |-> "int", v |-> n]
JBool(b) == [t |-> "bool", v |-> b]
JFloat(n) == [t |-> "float", v |-> n]
JNull == [t |-> "null", v |-> 0]
JList(items) == [t |-> "list", v |-> items]
\* a dict is the sequence of its (key, value) items in insertion order
JDict(items) == [t |-> "dict", v |-> items]

\* Python ==: bool is a subclass of int and True == 1, False == 0
PyEq(a, b) ==
    IF a.t \in {"int", "bool", "float"} /\ b.t \in {"int", "bool", "float"}
    THEN a.v = b.v
    ELSE a.t = b.t /\ a = b

\* value in lst
PyIn(value, lst) == \E i \in 1..Len(lst) : PyEq(lst[i], value)


(***************************************************************************)
(* Type references and the schema (the introspection result).              *)
(***************************************************************************)
\* a named type reference: {kind, name, ofType: None}
Named(kind, name) == [kind |-> kind, name |-> name, ofType |-> <<>>]
\* a wrapper type reference: {kind, name: None, ofType}
NonNull(ref) == [kind |-> "NON_NULL", name |-> <<>>, ofType |-> <<ref>>]
ListOf(ref) == [kind |-> "LIST", name |-> <<>>, ofType |-> <<ref>>]

ArgDef(name, type) == [name |-> name, type |-> type]
FieldDef(name, args, type) == [name |-> name, args |-> args, type |-> type]
TypeDefinition(kind, name, fields) == [kind |-> kind, name |-> name, fields |-> fields]

\* while type_ref.get('ofType'): type_ref = type_ref['ofType']
RECURSIVE get_base_type(_)
get_base_type(type_ref) ==
    IF type_ref.ofType # <<>> THEN get_base_type(type_ref.ofType[1]) ELSE type_ref

\* type_ref.get('kind') == 'NON_NULL'
is_required_type(type_ref) == type_ref.kind = "NON_NULL"

RECURSIVE get_type_string(_)
get_type_string(type_ref) ==
    IF type_ref.kind = "NON_NULL" THEN get_type_string(type_ref.ofType[1]) \o <<"!">>
    ELSE IF type_ref.kind = "LIST" THEN <<"[">> \o get_type_string(type_ref.ofType[1]) \o <<"]">>
    ELSE type_ref.name

RECURSIVE generate_default_value(_)
generate_default_value(type_ref) ==
    IF type_ref.kind = "NON_NULL" THEN generate_default_value(type_ref.ofType[1])
    ELSE IF type_ref.kind = "SCALAR" THEN
        IF type_ref.name = s_Int THEN JInt(0)
        ELSE IF type_ref.name = s_Float THEN JFloat(0)
        ELSE IF type_ref.name = s_String THEN JStr("default")
        ELSE IF type_ref.name = s_Boolean THEN JBool(1)
        ELSE IF type_ref.name = s_ID THEN JStr("1")
        ELSE JStr("default")
    ELSE IF type_ref.kind = "LIST" THEN JList(<<>>)
    ELSE JStr("default")

\* for t in self.schema['types']: if t['name'] == type_name: type_def = t; break
\* (None when no type has the name)
FindType(schema, type_name) ==
    IF \E i \in 1..Len(schema.types) : schema.types[i].name = type_name
    THEN LET i == CHOOSE j \in 1..Len(schema.types) :
                      /\ schema.types[j].name = type_name
                      /\ \A k \in 1..(j - 1) : schema.types[k].name # type_name
         IN  <<schema.types[i]>>
    ELSE <<>>

IsLeafKind(type_ref) == type_ref.kind \in {"SCALAR", "ENUM"}

\* the fallback of _build_selection_set: " { <first scalar field> }" of the
\* sub-type, or nothing
FirstScalarField(schema, sub_type_name) ==
    LET sub_type_def == FindType(schema, sub_type_name)
    IN  IF sub_type_def # <<>> /\ sub_type_def[1].fields # <<>>
        THEN LET fs == sub_type_def[1].fields
                 ok(i) == /\ ~StartsWith(fs[i].name, s_dunder)
                          /\ IsLeafKind(get_base_type(fs[i].type))
             IN  IF \E i \in 1..Len(fs) : ok(i)
                 THEN LET i == CHOOSE j \in 1..Len(fs) : ok(j) /\ \A k \in 1..(j - 1) : ~ok(k)
                      IN  <<" ", "{", " ">> \o fs[i].name \o <<" ", "}">>
                 ELSE <<>>
        ELSE <<>>

MaxDepth == 3

\* variant: the bound is passed before the builder gives up
DepthExhausted_off_by_one(depth) == depth > MaxDepth

\* if depth >= 3: return ""
DepthExhausted(depth) == depth >= MaxDepth

RECURSIVE build_selection_set(_, _, _)
RECURSIVE SelectionFields(_, _, _)

\* the loop over type_def['fields'] of _build_selection_set: the list `fields`
SelectionFields(schema, type_fields, depth) ==
    IF type_fields = <<>> THEN <<>>
    ELSE LET field == type_fields[1]
             field_base_type == get_base_type(field.type)
             sub_selection == build_selection_set(schema, field.type, depth + 1)
             field_str ==
                 IF ~IsLeafKind(field_base_type)
                 THEN IF sub_selection # <<>>
                      THEN field.name \o <<" ", "{", " ">> \o sub_selection \o <<" ", "}">>
                      ELSE field.name \o FirstScalarField(schema, field_base_type.name)
                 ELSE field.name
         IN  (IF StartsWith(field.name, s_dunder) THEN <<>> ELSE <<field_str>>)
                 \o SelectionFields(schema, Tail(type_fields), depth)

build_selection_set(schema, field_type, depth) ==
    IF DepthExhausted(depth) THEN <<>>
    ELSE LET base_type == get_base_type(field_type)
         IN  IF IsLeafKind(base_type) THEN <<>>
             ELSE LET type_def == FindType(schema, base_type.name)
                  IN  IF type_def = <<>> \/ type_def[1].fields = <<>> THEN <<>>
                      ELSE Join(SelectionFields(schema, type_def[1].fields, depth), <<" ">>)

\* the calls of _build_selection_set that one call makes, itself included:
\* the depth argument of each, in call order
RECURSIVE selection_set_calls(_, _, _)
RECURSIVE FieldCalls(_, _, _)

\* the calls made by the loop over type_def['fields']
FieldCalls(schema, type_fields, depth) ==
    IF type_fields = <<>> THEN <<>>
    ELSE LET field == type_fields[1]
         IN  (IF /\ ~StartsWith(field.name, s_dunder)
                 /\ ~IsLeafKind(get_base_type(field.type))
              THEN selection_set_calls(schema, field.type, depth + 1)
              ELSE <<>>)
                 \o FieldCalls(schema, Tail(type_fields), depth)

selection_set_calls(schema, field_type, depth) ==
    <<depth>> \o
    (IF DepthExhausted(depth) THEN <<>>
     ELSE LET base_type == get_base_type(field_type)
          IN  IF IsLeafKind(base_type) THEN <<>>
              ELSE LET type_def == FindType(schema, base_type.name)
                   IN  IF type_def = <<>> \/ type_def[1].fields = <<>> THEN <<>>
                       ELSE FieldCalls(schema, type_def[1].fields, depth))

\* the variables dict of _build_query, as its (name, value) items in
\* insertion order: one per required argument
RequiredArgs(field) == SelectSeq(field.args, LAMBDA arg : is_required_type(arg.type))

\* _build_query: (query_str, variables)
build_query(schema, field, operation_type) ==
    LET req == RequiredArgs(field)
        variables == [i \in 1..Len(req) |->
                         <<s_var \o req[i].name, generate_default_value(req[i].type)>>]
        variable_definitions == [i \in 1..Len(req) |->
                         <<"$">> \o s_var \o req[i].name \o <<":", " ">>
                             \o get_type_string(req[i].type)]
        args_list == [i \in 1..Len(req) |->
                         req[i].name \o <<":", " ", "$">> \o s_var \o req[i].name]
        base_type == get_base_type(field.type)
        selection_set == build_selection_set(schema, field.type, 0)
        query_parts ==
            <<field.name>>
            \o (IF args_list # <<>>
                THEN << <<"(">> \o Join(args_list, <<",", " ">>) \o <<")">> >>
                ELSE <<>>)
            \o (IF ~IsLeafKind(base_type)
                THEN IF selection_set # <<>>
                     THEN << <<"{", " ">> \o selection_set \o <<" ", "}">> >>
                     ELSE << <<"{", " ", "i", "d", " ", "}">> >>
                ELSE <<>>)
        query_body == Join(query_parts, <<" ">>)
        query_str ==
            IF variable_definitions # <<>>
            THEN operation_type \o <<"(">> \o Join(variable_definitions, <<",", " ">>)
                   \o <<")", " ", "{", " ">> \o query_body \o <<" ", "}">>
            ELSE operation_type \o <<" ", "{", " ">> \o query_body \o <<" ", "}">>
    IN  <<query_str, variables>>

\* generate_queries_for_type: one (query, variables) per field that is not
\* an introspection field
RECURSIVE QueriesForFields(_, _, _)
QueriesForFields(schema, type_fields, operation_type) ==
    IF type_fields = <<>> THEN <<>>
    ELSE (IF StartsWith(type_fields[1].name, s_dunder) THEN <<>>
          ELSE << build_query(schema, type_fields[1], operation_type) >>)
             \o QueriesForFields(schema, Tail(type_fields), operation_type)

generate_queries_for_type(schema, type_def, operation_type) ==
    QueriesForFields(schema, type_def.fields, operation_type)

\* get_root_types: the (key, type definition) items of root_types, in the
\* order queryType, mutationType, subscriptionType
RootEntry(schema, root_type) ==
    LET entry == IF root_type = s_queryType THEN schema.queryType
                 ELSE IF root_type = s_mutationType THEN schema.mutationType
                 ELSE schema.subscriptionType
    IN  IF entry # <<>> /\ entry[1].name # <<>> /\ FindType(schema, entry[1].name) # <<>>
        THEN << <<Capitalize(Replace(root_type, s_Type, <<>>)),
                  FindType(schema, entry[1].name)[1]>> >>
        ELSE <<>>

get_root_types(schema) ==
    RootEntry(schema, s_queryType) \o RootEntry(schema, s_mutationType)
        \o RootEntry(schema, s_subscriptionType)

\* all_queries.extend(...) over the root types
RECURSIVE ExtendAll(_, _)
ExtendAll(schema, root_types) ==
    IF root_types = <<>> THEN <<>>
    ELSE generate_queries_for_type(schema, root_types[1][2], Lower(root_types[1][1]))
             \o ExtendAll(schema, Tail(root_types))

generate_all_queries(schema) == ExtendAll(schema, get_root_types(schema))

(***************************************************************************)
(* Parameter extraction.  parameter_values maps each bucket name to its    *)
(* list; a key the code has not created yet is the empty list (the code    *)
(* creates a key only to append to it at once, and reads the pool only     *)
(* through parameter_values.get(key) as a truth value).                    *)
(***************************************************************************)
Buckets == {"ids", "usernames", "strings", "ints", "bools"}

EmptyPool == [b \in Buckets |-> <<>>]

\* variant: the membership test before the append is missing
AddToBucket_no_membership_test(parameter_values, b, value) ==
    [parameter_values EXCEPT ![b] = Append(@, value)]

\* if value not in parameter_values[b]: parameter_values[b].append(value)
AddToBucket(parameter_values, b, value) ==
    IF PyIn(value, parameter_values[b])
    THEN parameter_values
    ELSE [parameter_values EXCEPT ![b] = Append(@, value)]

\* isinstance(value, str) / isinstance(value, int) / isinstance(value, bool):
\* bool is a subclass of int
IsInstanceStr(value) == value.t = "str"
IsInstanceInt(value) == value.t \in {"int", "bool"}
IsInstanceBool(value) == value.t = "bool"

\* the if/elif chain run on one (key, value) item of a dict
BucketItem(key, value, parameter_values) ==
    IF key = "id" /\ IsInstanceStr(value) THEN AddToBucket(parameter_values, "ids", value)
    ELSE IF key = "username" /\ IsInstanceStr(value)
        THEN AddToBucket(parameter_values, "usernames", value)
    ELSE IF IsInstanceStr(value) THEN AddToBucket(parameter_values, "strings", value)
    ELSE IF IsInstanceInt(value) THEN AddToBucket(parameter_values, "ints", value)
    ELSE IF IsInstanceBool(value) THEN AddToBucket(parameter_values, "bools", value)
    ELSE parameter_values

RECURSIVE extract_parameters_from_result(_, _)
RECURSIVE ExtractItems(_, _)
RECURSIVE ExtractList(_, _)

\* for key, value in data.items(): bucket the item, then recurse into value
ExtractItems(items, parameter_values) ==
    IF items = <<>> THEN parameter_values
    ELSE LET key == items[1][1]
             value == items[1][2]
             bucketed == BucketItem(key, value, parameter_values)
         IN  ExtractItems(Tail(items), extract_parameters_from_result(value, bucketed))

\* for item in data: recurse into item
ExtractList(items, parameter_values) ==
    IF items = <<>> THEN parameter_values
    ELSE ExtractList(Tail(items), extract_parameters_from_result(items[1], parameter_values))

\* _extract_parameters_from_result: the pool after the call
extract_parameters_from_result(data, parameter_values) ==
    IF data.t = "dict" THEN ExtractItems(data.v, parameter_values)
    ELSE IF data.t = "list" THEN ExtractList(data.v, parameter_values)
    ELSE parameter_values

(***************************************************************************)
(* Pass 2: filling one variable from the pool (scrape_everything).         *)
(***************************************************************************)
\* variant: the ids bucket is consulted after the generic buckets
FillValue_generic_first(var_name, var_value, parameter_values) ==
    IF parameter_values["strings"] # <<>> THEN parameter_values["strings"][1]
    ELSE IF parameter_values["ints"] # <<>> THEN parameter_values["ints"][1]
    ELSE IF parameter_values["bools"] # <<>> THEN parameter_values["bools"][1]
    ELSE IF Contains(Lower(var_name), s_id) /\ parameter_values["ids"] # <<>>
        THEN parameter_values["ids"][1]
    ELSE IF Contains(Lower(var_name), s_username) /\ parameter_values["usernames"] # <<>>
        THEN parameter_values["usernames"][1]
    ELSE var_value

FillValue(var_name, var_value, parameter_values) ==
    IF Contains(Lower(var_name), s_id) /\ parameter_values["ids"] # <<>>
        THEN parameter_values["ids"][1]
    ELSE IF Contains(Lower(var_name), s_username) /\ parameter_values["usernames"] # <<>>
        THEN parameter_values["usernames"][1]
    ELSE IF parameter_values["strings"] # <<>> THEN parameter_values["strings"][1]
    ELSE IF parameter_values["ints"] # <<>> THEN parameter_values["ints"][1]
    ELSE IF parameter_values["bools"] # <<>> THEN parameter_values["bools"][1]
    ELSE var_value

FillVariables(variables, parameter_values) ==
    [k \in 1..Len(variables) |->
        <<variables[k][1], FillValue(variables[k][1], variables[k][2], parameter_values)>>]

(***************************************************************************)
(* The endpoint: the schemas it may describe and the answers it may give.  *)
(***************************************************************************)
T_ID == Named("SCALAR", s_ID)
T_String == Named("SCALAR", s_String)
T_Int == Named("SCALAR", s_Int)
T_Boolean == Named("SCALAR", s_Boolean)
T_User == Named("OBJECT", s_User)

\* type User { id: ID!  username: String  friends: [User] }
UserType ==
    TypeDefinition("OBJECT", s_User,
        << FieldDef(s_id, <<>>, NonNull(T_ID)),
           FieldDef(s_username, <<>>, T_String),
           FieldDef(s_friends, <<>>, ListOf(T_User)) >>)

\* users: [User]!   version(term: String): String
\* user(id: ID!): User   search(username: String!, limit: Int!): [User]
QueryFieldCatalog ==
    << FieldDef(s_users, <<>>, NonNull(ListOf(T_User))),
       FieldDef(s_version, <<ArgDef(s_term, T_String)>>, T_String),
       FieldDef(s_user, <<ArgDef(s_id, NonNull(T_ID))>>, T_User),
       FieldDef(s_search, <<ArgDef(s_username, NonNull(T_String)),
                            ArgDef(s_limit, NonNull(T_Int))>>, ListOf(T_User)) >>

\* createUser(username: String!): User   reset: Boolean
MutationFieldCatalog ==
    << FieldDef(s_createUser, <<ArgDef(s_username, NonNull(T_String))>>, T_User),
       FieldDef(s_reset, <<>>, T_Boolean) >>

\* userAdded: User
SubscriptionFieldCatalog == << FieldDef(s_userAdded, <<>>, T_User) >>

HasField(fs, f) == \E a \in 1..Len(fs) : fs[a].name = f.name

\* the sequences of at most n fields of a catalog, field names unique
RECURSIVE FieldLists(_, _)
FieldLists(catalog, n) ==
    IF n = 0 THEN {<<>>}
    ELSE LET shorter == FieldLists(catalog, n - 1)
         IN  shorter \cup
             UNION { { Append(fs, catalog[k]) :
                         k \in {j \in 1..Len(catalog) : ~HasField(fs, catalog[j])} } :
                     fs \in {x \in shorter : Len(x) = n - 1} }

\* the __schema object: a root type is named (and defined) when it has fields;
\* the query root is always named
MakeSchema(query_fields, mutation_fields, subscription_fields) ==
    [ queryType |-> << [name |-> s_Query] >>,
      mutationType |-> IF mutation_fields # <<>> THEN << [name |-> s_Mutation] >> ELSE <<>>,
      subscriptionType |->
          IF subscription_fields # <<>> THEN << [name |-> s_Subscription] >> ELSE <<>>,
      types |-> << TypeDefinition("OBJECT", s_Query, query_fields), UserType,
                   TypeDefinition("SCALAR", s_ID, <<>>),
                   TypeDefinition("SCALAR", s_String, <<>>) >>
                \o (IF mutation_fields # <<>>
                    THEN << TypeDefinition("OBJECT", s_Mutation, mutation_fields) >> ELSE <<>>)
                \o (IF subscription_fields # <<>>
                    THEN << TypeDefinition("OBJECT", s_Subscription, subscription_fields) >>
                    ELSE <<>>) ]

Schemas ==
    { MakeSchema(q, m, s) :
        q \in FieldLists(QueryFieldCatalog, MaxQueryFields),
        m \in FieldLists(MutationFieldCatalog, MaxMutationFields),
        s \in {<<>>, SubscriptionFieldCatalog} }

\* HTTP answers to the introspection request: what requests.post,
\* raise_for_status and response.json() make of them
IntrospectionResponses ==
    { [status |-> "request_exception", errors |-> <<>>, data |-> <<>>],
      [status |-> "invalid_json", errors |-> <<>>, data |-> <<>>],
      [status |-> "json", errors |-> <<"introspection is disabled">>, data |-> <<>>],
      [status |-> "json", errors |-> <<"partial">>,
       data |-> << MakeSchema(<<QueryFieldCatalog[1]>>, <<>>, <<>>) >>],
      [status |-> "json", errors |-> <<>>, data |-> <<>>] }
    \cup { [status |-> "json", errors |-> <<>>, data |-> <<sch>>] : sch \in Schemas }

\* response trees
Tree_users ==
    JDict(<< <<"users", JList(<<
        JDict(<< <<"id", JStr("u1")>>, <<"username", JStr("alice")>>,
                 <<"name", JStr("Al")>>, <<"active", JBool(1)>>, <<"age", JInt(1)>> >>),
        JDict(<< <<"id", JStr("u2")>>, <<"username", JStr("alice")>>,
                 <<"name", JStr("Al")>>, <<"active", JBool(0)>>, <<"age", JInt(30)>> >>)
        >>)>> >>)
Tree_users_intid ==
    JDict(<< <<"users", JList(<< JDict(<< <<"id", JInt(7)>>, <<"score", JFloat(2)>>,
                                           <<"friends", JNull>> >>) >>)>> >>)
Tree_version == JDict(<< <<"version", JStr("v1")>> >>)
Tree_user == JDict(<< <<"user", JDict(<< <<"id", JStr("u9")>>, <<"username", JStr("zed")>> >>)>> >>)
Tree_search == JDict(<< <<"search", JList(<<>>)>> >>)
Tree_userAdded ==
    JDict(<< <<"userAdded", JDict(<< <<"id", JStr("u1")>>, <<"username", JStr("alice")>>,
                                     <<"active", JBool(1)>> >>)>> >>)

\* the root field a query text asks for: the name after the first "{ "
FieldNameOf(query) ==
    LET open == CHOOSE j \in 1..Len(query) :
                    query[j] = "{" /\ \A k \in 1..(j - 1) : query[k] # "{"
        start == open + 2
        stop == CHOOSE j \in start..Len(query) :
                    /\ query[j] \in {" ", "("}
                    /\ \A k \in start..(j - 1) : query[k] \notin {" ", "("}
    IN  SubSeq(query, start, stop - 1)

\* the data the endpoint may return for a query
DataFor(query) ==
    LET f == FieldNameOf(query)
    IN  IF f = s_users THEN <<Tree_users, Tree_users_intid>>
        ELSE IF f = s_version THEN <<Tree_version>>
        ELSE IF f = s_user THEN <<Tree_user>>
        ELSE IF f = s_search THEN <<Tree_search>>
        ELSE IF f = s_userAdded THEN <<Tree_userAdded>>
        ELSE <<JNull>>

\* HTTP answers to a query request
QueryResponses(query) ==
    { [status |-> "request_exception", errors |-> <<>>, data |-> <<>>],
      [status |-> "json", errors |-> <<"field error">>, data |-> <<DataFor(query)[1]>>] }
    \cup { [status |-> "json", errors |-> <<>>, data |-> <<DataFor(query)[k]>>] :
             k \in 1..Len(DataFor(query)) }

(***************************************************************************)
(* The calls to the transport.  A call returns a value or raises; raised   *)
(* is the exception that leaves the call, if any.                          *)
(***************************************************************************)
\* variant: a top-level `errors` entry is not checked
fetch_schema_errors_unchecked(response) ==
    IF response.status = "request_exception"
        THEN [raised |-> <<"HTTP error">>, schema |-> <<>>]
    ELSE IF response.status = "invalid_json"
        THEN [raised |-> <<"Invalid JSON response">>, schema |-> <<>>]
    ELSE IF response.data = <<>>
        THEN [raised |-> <<"KeyError: 'data'">>, schema |-> <<>>]
    ELSE [raised |-> <<>>, schema |-> response.data]

\* fetch_schema: the schema kept in self.schema, or the exception raised
fetch_schema(response) ==
    IF response.status = "request_exception"
        THEN [raised |-> <<"HTTP error">>, schema |-> <<>>]
    ELSE IF response.status = "invalid_json"
        THEN [raised |-> <<"Invalid JSON response">>, schema |-> <<>>]
    ELSE IF response.errors # <<>>
        THEN [raised |-> <<"GraphQL errors">>, schema |-> <<>>]
    ELSE IF response.data = <<>>
        THEN [raised |-> <<"KeyError: 'data'">>, schema |-> <<>>]
    ELSE [raised |-> <<>>, schema |-> response.data]

\* variant: a RequestException is not caught
execute_query_uncaught(response) ==
    IF response.status = "request_exception"
        THEN [raised |-> <<"RequestException">>,
              result |-> [error |-> <<>>, errors |-> <<>>, data |-> <<>>]]
    ELSE IF response.status = "invalid_json"
        THEN [raised |-> <<>>,
              result |-> [error |-> <<"Invalid JSON response">>, errors |-> <<>>, data |-> <<>>]]
    ELSE [raised |-> <<>>,
          result |-> [error |-> <<>>, errors |-> response.errors, data |-> response.data]]

\* execute_query: the dict returned
execute_query(response) ==
    IF response.status = "request_exception"
        THEN [raised |-> <<>>,
              result |-> [error |-> <<"request failed">>, errors |-> <<>>, data |-> <<>>]]
    ELSE IF response.status = "invalid_json"
        THEN [raised |-> <<>>,
              result |-> [error |-> <<"Invalid JSON response">>, errors |-> <<>>, data |-> <<>>]]
    ELSE [raised |-> <<>>,
          result |-> [error |-> <<>>, errors |-> response.errors, data |-> response.data]]

\* the record appended after an execution
ExecutionRecord(query, variables, result) ==
    [ query |-> query,
      variables |-> variables,
      result |-> result,
      success |-> result.errors = <<>> /\ result.error = <<>>,
      errors |-> result.errors,
      error |-> result.error ]

\* the record appended for a mutation
SkippedRecord(mutation, variables) ==
    [ query |-> mutation,
      variables |-> variables,
      result |-> [skipped |-> TRUE, message |-> "Mutations are not executed"],
      success |-> FALSE,
      errors |-> <<"Mutation skipped - not executed for safety">>,
      error |-> <<>> ]

\* variant: the data of every answer that carries data is extracted
ShouldExtract_whenever_data(record, result) == result.data # <<>>

\* if success and 'data' in result
ShouldExtract(record, result) == record.success /\ result.data # <<>>

\* variant: the prefix tested is the capitalized root-type key
IsMutation_capitalized(op) == StartsWith(op, s_Mutation)

\* op.startswith('mutation')
IsMutation(op) == StartsWith(op, s_mutation)

\* variant: pass 1 runs every query
RunsInFirstPass_always(variables) == TRUE

\* pass 1 runs a query when `not variables`
RunsInFirstPass(variables) == variables = <<>>

\* variant: pass 2 runs every query
RunsInSecondPass_always(variables) == TRUE

\* pass 2 runs a query when `variables`
RunsInSecondPass(variables) == variables # <<>>

\* coverage, as the exact ratio num/den of the float the code computes
Coverage(successful_queries, all_queries) ==
    IF all_queries # <<>>
    THEN [num |-> Len(successful_queries) * 100, den |-> Len(all_queries)]
    ELSE [num |-> 0, den |-> 1]

\* variant: the total counts the queries only
Summarize_queries_only(first, second, skipped, qs, ms) ==
    LET results == first \o second \o skipped
        all_queries == qs
        successful_queries == SelectSeq(results, LAMBDA r : r.success)
        failed_queries == SelectSeq(results, LAMBDA r : ~r.success)
    IN  [ total_queries |-> Len(all_queries),
          successful |-> Len(successful_queries),
          failed |-> Len(failed_queries),
          skipped_mutations |-> Len(ms),
          coverage |-> Coverage(successful_queries, all_queries),
          results |-> results ]

\* variant: the failed count leaves the skipped mutations out
Summarize_failed_excludes_skipped(first, second, skipped, qs, ms) ==
    LET results == first \o second \o skipped
        all_queries == qs \o ms
        successful_queries == SelectSeq(results, LAMBDA r : r.success)
        failed_queries == SelectSeq(first \o second, LAMBDA r : ~r.success)
    IN  [ total_queries |-> Len(all_queries),
          successful |-> Len(successful_queries),
          failed |-> Len(failed_queries),
          skipped_mutations |-> Len(ms),
          coverage |-> Coverage(successful_queries, all_queries),
          results |-> results ]

\* steps 6 and 7 of scrape_everything: the dict returned
Summarize(first, second, skipped, qs, ms) ==
    LET results == first \o second \o skipped
        all_queries == qs \o ms
        successful_queries == SelectSeq(results, LAMBDA r : r.success)
        failed_queries == SelectSeq(results, LAMBDA r : ~r.success)
    IN  [ total_queries |-> Len(all_queries),
          successful |-> Len(successful_queries),
          failed |-> Len(failed_queries),
          skipped_mutations |-> Len(ms),
          coverage |-> Coverage(successful_queries, all_queries),
          results |-> results ]

(***************************************************************************)
(* State of one run of scrape_everything.                                  *)
(***************************************************************************)
VARIABLES
    pc,                  \* position in scrape_everything
    url_valid,           \* what validate_url() returns for endpoint_url
    introspection,       \* the answer the endpoint gave to the introspection request
    schema,              \* self.schema (None before the fetch)
    all_operations,      \* the planned (query, variables) pairs
    queries, mutations,  \* the two partitions of all_operations
    i,                   \* index of the loop that is running
    parameter_values,    \* the parameter pool
    first_pass_results, second_pass_results, mutation_results,
    summary,             \* the dict returned (None until the run returns)
    raised,              \* the exception that ended the run, if any
    sent                 \* the payloads execute_query posted, in order

vars == <<pc, url_valid, introspection, schema, all_operations, queries, mutations, i, parameter_values,
          first_pass_results, second_pass_results, mutation_results, summary, raised, sent>>

Init ==
    /\ pc = "start"
    /\ url_valid \in BOOLEAN
    /\ introspection = <<>>
    /\ schema = <<>>
    /\ all_operations = <<>>
    /\ queries = <<>>
    /\ mutations = <<>>
    /\ i = 0
    /\ parameter_values = EmptyPool
    /\ first_pass_results = <<>>
    /\ second_pass_results = <<>>
    /\ mutation_results = <<>>
    /\ summary = <<>>
    /\ raised = <<>>
    /\ sent = <<>>

\* if not self.validate_url(): raise ValueError
ValidateUrl ==
    /\ pc = "start"
    /\ IF url_valid
       THEN pc' = "fetch" /\ raised' = raised
       ELSE pc' = "aborted" /\ raised' = <<"Invalid URL format">>
    /\ UNCHANGED <<url_valid, introspection, schema, all_operations, queries, mutations, i, parameter_values,
                   first_pass_results, second_pass_results, mutation_results, summary, sent>>

\* 1. self.fetch_schema()
FetchSchema ==
    /\ pc = "fetch"
    /\ \E response \in IntrospectionResponses :
          LET outcome == fetch_schema(response)
          IN  /\ introspection' = <<response>>
              /\ IF outcome.raised # <<>>
                 THEN pc' = "aborted" /\ raised' = outcome.raised /\ schema' = schema
                 ELSE pc' = "plan" /\ raised' = raised /\ schema' = outcome.schema
    /\ UNCHANGED <<url_valid, all_operations, queries, mutations, i, parameter_values,
                   first_pass_results, second_pass_results, mutation_results, summary, sent>>

\* 2. generate all queries and separate the mutations
GenerateAndSeparate ==
    /\ pc = "plan"
    /\ LET ops == generate_all_queries(schema[1])
       IN  /\ all_operations' = ops
           /\ mutations' = SelectSeq(ops, LAMBDA op : IsMutation(op[1]))
           /\ queries' = SelectSeq(ops, LAMBDA op : ~IsMutation(op[1]))
    /\ pc' = "pass1"
    /\ i' = 1
    /\ UNCHANGED <<url_valid, introspection, schema, parameter_values, first_pass_results,
                   second_pass_results, mutation_results, summary, raised, sent>>

\* 3. one iteration of the first loop, on a query without parameters
Pass1Execute ==
    /\ pc = "pass1"
    /\ i <= Len(queries)
    /\ RunsInFirstPass(queries[i][2])
    /\ LET query == queries[i][1]
           variables == queries[i][2]
       IN  \E response \in QueryResponses(query) :
              LET outcome == execute_query(response)
                  record == ExecutionRecord(query, variables, outcome.result)
              IN  /\ sent' = Append(sent, [query |-> query, variables |-> variables])
                  /\ IF outcome.raised # <<>>
                     THEN /\ pc' = "aborted"
                          /\ raised' = outcome.raised
                          /\ UNCHANGED <<i, first_pass_results, parameter_values>>
                     ELSE /\ first_pass_results' = Append(first_pass_results, record)
                          /\ parameter_values' =
                                 IF ShouldExtract(record, outcome.result)
                                 THEN extract_parameters_from_result(
                                          outcome.result.data[1], parameter_values)
                                 ELSE parameter_values
                          /\ i' = i + 1
                          /\ UNCHANGED <<pc, raised>>
    /\ UNCHANGED <<url_valid, introspection, schema, all_operations, queries, mutations,
                   second_pass_results, mutation_results, summary>>

\* 3. one iteration of the first loop, on a query with parameters
Pass1Skip ==
    /\ pc = "pass1"
    /\ i <= Len(queries)
    /\ ~RunsInFirstPass(queries[i][2])
    /\ i' = i + 1
    /\ UNCHANGED <<pc, url_valid, introspection, schema, all_operations, queries, mutations, parameter_values,
                   first_pass_results, second_pass_results, mutation_results, summary,
                   raised, sent>>

\* the first loop is exhausted
Pass1Done ==
    /\ pc = "pass1"
    /\ i > Len(queries)
    /\ pc' = "pass2"
    /\ i' = 1
    /\ UNCHANGED <<url_valid, introspection, schema, all_operations, queries, mutations, parameter_values,
                   first_pass_results, second_pass_results, mutation_results, summary,
                   raised, sent>>

\* 4. one iteration of the second loop, on a query with parameters
Pass2Execute ==
    /\ pc = "pass2"
    /\ i <= Len(queries)
    /\ RunsInSecondPass(queries[i][2])
    /\ LET query == queries[i][1]
           filled_variables == FillVariables(queries[i][2], parameter_values)
       IN  \E response \in QueryResponses(query) :
              LET outcome == execute_query(response)
                  record == ExecutionRecord(query, filled_variables, outcome.result)
              IN  /\ sent' = Append(sent, [query |-> query, variables |-> filled_variables])
                  /\ IF outcome.raised # <<>>
                     THEN /\ pc' = "aborted"
                          /\ raised' = outcome.raised
                          /\ UNCHANGED <<i, second_pass_results>>
                     ELSE /\ second_pass_results' = Append(second_pass_results, record)
                          /\ i' = i + 1
                          /\ UNCHANGED <<pc, raised>>
    /\ UNCHANGED <<url_valid, introspection, schema, all_operations, queries, mutations, parameter_values,
                   first_pass_results, mutation_results, summary>>

\* 4. one iteration of the second loop, on a query without parameters
Pass2Skip ==
    /\ pc = "pass2"
    /\ i <= Len(queries)
    /\ ~RunsInSecondPass(queries[i][2])
    /\ i' = i + 1
    /\ UNCHANGED <<pc, url_valid, introspection, schema, all_operations, queries, mutations, parameter_values,
                   first_pass_results, second_pass_results, mutation_results, summary,
                   raised, sent>>

\* the second loop is exhausted
Pass2Done ==
    /\ pc = "pass2"
    /\ i > Len(queries)
    /\ pc' = "mutations"
    /\ i' = 1
    /\ UNCHANGED <<url_valid, introspection, schema, all_operations, queries, mutations, parameter_values,
                   first_pass_results, second_pass_results, mutation_results, summary,
                   raised, sent>>

\* 5. one iteration of the loop over the mutations
RecordMutation ==
    /\ pc = "mutations"
    /\ i <= Len(mutations)
    /\ mutation_results' =
           Append(mutation_results, SkippedRecord(mutations[i][1], mutations[i][2]))
    /\ i' = i + 1
    /\ UNCHANGED <<pc, url_valid, introspection, schema, all_operations, queries, mutations, parameter_values,
                   first_pass_results, second_pass_results, summary, raised, sent>>

\* 6, 7. combine and analyze the results, return the summary
Analyze ==
    /\ pc = "mutations"
    /\ i > Len(mutations)
    /\ summary' = << Summarize(first_pass_results, second_pass_results, mutation_results,
                               queries, mutations) >>
    /\ pc' = "done"
    /\ UNCHANGED <<url_valid, introspection, schema, all_operations, queries, mutations, i, parameter_values,
                   first_pass_results, second_pass_results, mutation_results, raised, sent>>

Next ==
    \/ ValidateUrl
    \/ FetchSchema
    \/ GenerateAndSeparate
    \/ Pass1Execute
    \/ Pass1Skip
    \/ Pass1Done
    \/ Pass2Execute
    \/ Pass2Skip
    \/ Pass2Done
    \/ RecordMutation
    \/ Analyze

Spec == Init /\ [][Next]_vars

(***************************************************************************)
(* Properties.                                                             *)
(***************************************************************************)
\* the fields of a root type of the fetched schema from which an operation
\* is planned, in declaration order
PlannedFields(root) ==
    IF schema = <<>> \/ root = <<>> THEN <<>>
    ELSE LET type_def == FindType(schema[1], root[1].name)
         IN  IF type_def = <<>> THEN <<>>
             ELSE SelectSeq(type_def[1].fields, LAMBDA f : ~StartsWith(f.name, s_dunder))

QueryRootFields == PlannedFields(IF schema = <<>> THEN <<>> ELSE schema[1].queryType)
MutationRootFields == PlannedFields(IF schema = <<>> THEN <<>> ELSE schema[1].mutationType)
SubscriptionRootFields ==
    PlannedFields(IF schema = <<>> THEN <<>> ELSE schema[1].subscriptionType)

\* the text of the operation planned from a field
TextOf(field, operation_type) == build_query(schema[1], field, operation_type)[1]

\* the transport was invoked for the operation
Transmitted(query) == \E k \in 1..Len(sent) : sent[k].query = query

\* the result set of a completed run holds a skip record for the operation
RecordedAsSkipped(query) ==
    \E k \in 1..Len(summary[1].results) :
        /\ summary[1].results[k].query = query
        /\ summary[1].results[k].success = FALSE
        /\ summary[1].results[k].errors = <<"Mutation skipped - not executed for safety">>

\* C1: an operation planned from a field of the mutation root type is never
\* handed to the transport, and the result set of a completed run holds a
\* record for it with success = false and the skip message.
MutationsNeverTransmitted ==
    \A k \in 1..Len(MutationRootFields) :
        LET query == TextOf(MutationRootFields[k], s_mutation)
        IN  /\ ~Transmitted(query)
            /\ pc = "done" => RecordedAsSkipped(query)

\* a completed run that planned a mutation and transmitted a query
MutationSkippedWitness ==
    /\ pc = "done"
    /\ Len(MutationRootFields) > 0
    /\ RecordedAsSkipped(TextOf(MutationRootFields[1], s_mutation))
    /\ sent # <<>>

\* C2: an operation planned from a field of the subscription root type is
\* never handed to the transport, and the result set of a completed run
\* holds a record for it with success = false and the skip message.
SubscriptionsNeverTransmitted ==
    \A k \in 1..Len(SubscriptionRootFields) :
        LET query == TextOf(SubscriptionRootFields[k], s_subscription)
        IN  /\ ~Transmitted(query)
            /\ pc = "done" => RecordedAsSkipped(query)

\* a field has no required (NON_NULL) argument
ArgumentFree(field) == \A a \in 1..Len(field.args) : field.args[a].type.kind # "NON_NULL"

\* the texts of the operations planned from a sequence of fields
RECURSIVE TextsOf(_, _)
TextsOf(fields, operation_type) ==
    IF fields = <<>> THEN <<>>
    ELSE <<TextOf(fields[1], operation_type)>> \o TextsOf(Tail(fields), operation_type)

\* the texts of the operations planned from the query root, in planning order
ArgumentFreeQueryTexts == TextsOf(SelectSeq(QueryRootFields, ArgumentFree), s_query)
RequiredArgumentQueryTexts ==
    TextsOf(SelectSeq(QueryRootFields, LAMBDA f : ~ArgumentFree(f)), s_query)

\* the texts of the query operations transmitted so far, in order of transmission
RECURSIVE QueriesOf(_)
QueriesOf(entries) ==
    IF entries = <<>> THEN <<>> ELSE <<entries[1].query>> \o QueriesOf(Tail(entries))

TransmittedQueryTexts ==
    QueriesOf(SelectSeq(sent, LAMBDA e : StartsWith(e.query, s_query)))

IsPrefix(a, b) == Len(a) <= Len(b) /\ SubSeq(b, 1, Len(a)) = a

HasRecord(records, query) == \E k \in 1..Len(records) : records[k].query = query

\* C3: during pass 1 exactly the query operations without a required
\* argument are transmitted, in planning order; when pass 1 is over every one
\* of them has been transmitted and recorded and no other has; a query with
\* a required argument is transmitted only after that.
TwoPassOrdering ==
    LET free == ArgumentFreeQueryTexts
        required == RequiredArgumentQueryTexts
        transmitted == TransmittedQueryTexts
    IN  /\ pc = "pass1" => IsPrefix(transmitted, free)
        /\ pc \in {"pass2", "mutations", "done"} =>
              /\ IsPrefix(free, transmitted)
              /\ IsPrefix(transmitted, free \o required)
              /\ \A k \in 1..Len(free) : HasRecord(first_pass_results, free[k])
              /\ \A k \in 1..Len(required) : ~HasRecord(first_pass_results, required[k])
        /\ \A k \in 1..Len(required) :
              (\E j \in 1..Len(transmitted) : transmitted[j] = required[k]) =>
                  /\ pc # "pass1"
                  /\ \A j \in 1..Len(free) :
                        /\ \E m \in 1..Len(transmitted) : transmitted[m] = free[j]
                        /\ HasRecord(first_pass_results, free[j])

\* a completed run whose first planned query has a required argument and whose
\* second has none: the second was transmitted before the first
TwoPassOrderingWitness ==
    /\ pc = "done"
    /\ Len(QueryRootFields) = 2
    /\ ~ArgumentFree(QueryRootFields[1])
    /\ ArgumentFree(QueryRootFields[2])
    /\ Len(sent) >= 2
    /\ sent[1].query = TextOf(QueryRootFields[2], s_query)
    /\ sent[2].query = TextOf(QueryRootFields[1], s_query)

\* the value a transmitted payload carries for a variable, if it has the variable
ValuesSentFor(entry, var_name) ==
    { entry.variables[k][2] :
        k \in {j \in 1..Len(entry.variables) : entry.variables[j][1] = var_name} }

\* the payloads of query operations that carry the variable of an argument `id`
IdQueriesSent ==
    { k \in 1..Len(sent) :
        /\ StartsWith(sent[k].query, s_query)
        /\ ValuesSentFor(sent[k], s_var \o s_id) # {} }

InBucket(value, b) == \E k \in 1..Len(parameter_values[b]) : parameter_values[b][k] = value

OneRecordPerOperation ==
    LET results == summary[1].results
    IN  /\ Len(all_operations) =
               Len(QueryRootFields) + Len(MutationRootFields) + Len(SubscriptionRootFields)
        /\ Len(results) = Len(all_operations)
        /\ \A k \in 1..Len(all_operations) :
              Cardinality({r \in 1..Len(results) : results[r].query = all_operations[k][1]}) = 1

\* the position in the run, counted down to completion
Rank ==
    CASE pc = "plan" -> 4
      [] pc = "pass1" -> 3
      [] pc = "pass2" -> 2
      [] pc = "mutations" -> 1
      [] OTHER -> 0

\* what is left of the run: the loops still to run and the iterations left in
\* the running one
Remaining == Rank * (Len(all_operations) + 2) + (Len(all_operations) + 1 - i)

\* a step of a planned run leaves less to do
StepMakesProgress ==
    pc \in {"pass1", "pass2", "mutations"} => (Remaining' < Remaining /\ Remaining' >= 0)

\* the running loop is inside its range, or just past its end
LoopInRange ==
    /\ pc \in {"pass1", "pass2"} => i \in 1..(Len(queries) + 1)
    /\ pc = "mutations" => i \in 1..(Len(mutations) + 1)

\* C5: once the schema is fetched, whatever the outcome of each query, the
\* run is never aborted and every step brings it closer to completion; the
\* result set of a completed run holds exactly one record per planned
\* operation, skipped mutations included.
RunCompletesWithAllRecords ==
    /\ [](schema # <<>> => (pc # "aborted" /\ raised = <<>> /\ LoopInRange))
    /\ [][StepMakesProgress]_vars
    /\ [](pc = "done" => OneRecordPerOperation)

\* a completed run in which a transport error and a GraphQL error are followed
\* by a success and by a skipped mutation
FailureThenLaterRecordsWitness ==
    /\ pc = "done"
    /\ Len(summary[1].results) >= 4
    /\ summary[1].results[1].error # <<>>
    /\ summary[1].results[2].errors # <<>>
    /\ summary[1].results[3].success
    /\ mutation_results # <<>>

\* the introspection fetch failed: transport failure, malformed JSON, or a
\* top-level `errors` entry
FetchFailed ==
    /\ introspection # <<>>
    /\ \/ introspection[1].status # "json"
       \/ introspection[1].errors # <<>>

\* C6: when the introspection fetch fails the run is aborted with an error,
\* nothing is planned, no query is transmitted and no record is produced.
FetchFailureAborts ==
    FetchFailed =>
        /\ pc = "aborted"
        /\ raised # <<>>
        /\ all_operations = <<>>
        /\ sent = <<>>
        /\ first_pass_results = <<>>
        /\ second_pass_results = <<>>
        /\ mutation_results = <<>>
        /\ summary = <<>>

\* the introspection answer carried a top-level `errors` entry next to a
\* usable schema, and the run is aborted
FetchErrorsWitness ==
    /\ introspection # <<>>
    /\ introspection[1].status = "json"
    /\ introspection[1].errors # <<>>
    /\ introspection[1].data # <<>>
    /\ pc = "aborted"

\* C7: no planned operation is transmitted more than once, whatever its
\* outcome, and none has more than one record.
NoRetries ==
    /\ \A a, b \in 1..Len(sent) : a # b => sent[a].query # sent[b].query
    /\ Len(sent) = Len(first_pass_results) + Len(second_pass_results)
    /\ Len(sent) <= Len(queries)

\* a completed run in which pass 1 met a transport error and a GraphQL error
\* and pass 2 transmitted a query
FailedNotRetriedWitness ==
    /\ pc = "done"
    /\ Len(first_pass_results) >= 2
    /\ first_pass_results[1].error # <<>>
    /\ first_pass_results[2].errors # <<>>
    /\ second_pass_results # <<>>
    /\ Len(sent) = 3

\* the number of successful records among executed operations
SuccessCount(records) == Cardinality({k \in 1..Len(records) : records[k].success})

\* C8: the coverage of a completed run is successes / planned operations * 100;
\* the total counts every planned operation, skipped mutations included, no
\* skipped mutation counts as a success, and with nothing planned the
\* coverage is 0 and the run still completes.
CoverageArithmetic ==
    pc = "done" =>
        LET total == Len(QueryRootFields) + Len(MutationRootFields)
                         + Len(SubscriptionRootFields)
            successes == SuccessCount(first_pass_results) + SuccessCount(second_pass_results)
        IN  /\ raised = <<>>
            /\ summary[1].total_queries = total
            /\ summary[1].successful = successes
            /\ \A k \in 1..Len(mutation_results) : ~mutation_results[k].success
            /\ Len(mutation_results) = Len(MutationRootFields)
            /\ summary[1].coverage.den > 0
            /\ IF total = 0
               THEN summary[1].coverage.num = 0
               ELSE summary[1].coverage.num * total = successes * 100 * summary[1].coverage.den

\* a completed run with successes, a failure and a skipped mutation
CoverageWitness ==
    /\ pc = "done"
    /\ mutation_results # <<>>
    /\ summary[1].successful = 2
    /\ summary[1].total_queries = 4
    /\ summary[1].coverage.num * 2 = summary[1].coverage.den * 100

\* every tree the endpoint may answer with
AllTrees ==
    << Tree_users, Tree_users_intid, Tree_version, Tree_user, Tree_search, Tree_userAdded >>

\* no two entries of a list are equal (Python ==)
NoDuplicates(lst) == \A a, b \in 1..Len(lst) : a # b => ~PyEq(lst[a], lst[b])

\* C9: extracting a response again, against the pool that its extraction
\* produced, leaves every bucket unchanged, and no bucket holds a value twice:
\* neither the pool nor the pool after extracting any further response.
ExtractionIdempotent ==
    /\ \A b \in Buckets : NoDuplicates(parameter_values[b])
    /\ \A r \in 1..Len(first_pass_results) :
          (first_pass_results[r].success /\ first_pass_results[r].result.data # <<>>) =>
              extract_parameters_from_result(first_pass_results[r].result.data[1],
                                             parameter_values) = parameter_values
    /\ \A d \in 1..Len(AllTrees) :
          LET extended == extract_parameters_from_result(AllTrees[d], parameter_values)
          IN  \A b \in Buckets : NoDuplicates(extended[b])

\* pass 1 extracted two successful responses that share values
RepeatedValuesWitness ==
    /\ Len(first_pass_results) >= 2
    /\ first_pass_results[1].success
    /\ first_pass_results[1].result.data = <<Tree_users>>
    /\ first_pass_results[2].success
    /\ first_pass_results[2].result.data = <<Tree_userAdded>>
    /\ Len(parameter_values["ids"]) = 2

\* the (key, value) items of the scalar leaves found under mapping keys
RECURSIVE LeafItems(_)
RECURSIVE LeafItemsOfAll(_)
LeafItemsOfAll(values) ==
    IF values = <<>> THEN <<>> ELSE LeafItems(values[1]) \o LeafItemsOfAll(Tail(values))
LeafItems(data) ==
    IF data.t = "dict"
    THEN IF data.v = <<>> THEN <<>>
         ELSE (IF data.v[1][2].t \in {"str", "int", "bool"} THEN <<data.v[1]>> ELSE <<>>)
                  \o LeafItems(data.v[1][2])
                  \o LeafItems(JDict(Tail(data.v)))
    ELSE IF data.t = "list" THEN LeafItemsOfAll(data.v)
    ELSE <<>>

\* the bucket of a leaf by category
BucketOf(key, value) ==
    IF key = "id" /\ value.t = "str" THEN "ids"
    ELSE IF key = "username" /\ value.t = "str" THEN "usernames"
    ELSE IF value.t = "str" THEN "strings"
    ELSE IF value.t = "int" THEN "ints"
    ELSE "bools"

\* C10: every scalar leaf of an extracted response is in the bucket of its
\* category; a boolean is in pool.bools and not in pool.ints.
LeavesBucketedByCategory ==
    \A r \in 1..Len(first_pass_results) :
        (first_pass_results[r].success /\ first_pass_results[r].result.data # <<>>) =>
            LET leaves == LeafItems(first_pass_results[r].result.data[1])
            IN  \A k \in 1..Len(leaves) :
                    /\ PyIn(leaves[k][2], parameter_values[BucketOf(leaves[k][1], leaves[k][2])])
                    /\ leaves[k][2].t = "bool" => ~InBucket(leaves[k][2], "ints")

\* a step that appends a record to first_pass_results
FirstPassAppends == Len(first_pass_results') = Len(first_pass_results) + 1

\* the record such a step appended
AppendedFirstPassRecord == first_pass_results'[Len(first_pass_results')]

\* the pool is changed only by a pass-1 step that recorded a successful
\* execution, and then to the extraction of that record's data; every other
\* step leaves it as it is; no bucket ever loses or reorders a value
PoolStep ==
    /\ parameter_values' # parameter_values =>
           /\ pc = "pass1"
           /\ FirstPassAppends
           /\ AppendedFirstPassRecord.success
           /\ AppendedFirstPassRecord.result.data # <<>>
           /\ parameter_values' =
                  extract_parameters_from_result(AppendedFirstPassRecord.result.data[1],
                                                 parameter_values)
    /\ (pc = "pass1" /\ FirstPassAppends /\ ~AppendedFirstPassRecord.success) =>
           parameter_values' = parameter_values
    /\ pc \in {"pass2", "mutations"} => parameter_values' = parameter_values
    /\ \A b \in Buckets : IsPrefix(parameter_values[b], parameter_values'[b])

\* C11: the pool is changed only by extraction from the response of a
\* successful pass-1 execution: an unsuccessful pass-1 response, every pass-2
\* execution and the recording of skipped mutations leave it unchanged, and
\* the pool never loses a value once added.
PoolChangedOnlyBySuccessfulFirstPass == [][PoolStep]_vars

\* a completed run in which pass 1 harvested ids from a success, then got an
\* answer with errors and data, pass 2 got a successful answer holding an id
\* that is not in the pool, and a mutation was recorded
PoolFrameWitness ==
    /\ pc = "done"
    /\ Len(first_pass_results) = 2
    /\ first_pass_results[1].success
    /\ first_pass_results[1].result.data = <<Tree_users>>
    /\ first_pass_results[2].errors # <<>>
    /\ first_pass_results[2].result.data = <<Tree_userAdded>>
    /\ second_pass_results # <<>>
    /\ second_pass_results[1].success
    /\ second_pass_results[1].result.data = <<Tree_user>>
    /\ mutation_results # <<>>
    /\ parameter_values["ids"] = <<JStr("u1"), JStr("u2")>>
    /\ ~InBucket(JStr("u9"), "ids")

\* the fields of the root types whose type is not a leaf: the fields for
\* which _build_query calls the selection-set builder
ObjectTypedRootFields ==
    SelectSeq(QueryRootFields \o MutationRootFields \o SubscriptionRootFields,
              LAMBDA f : ~IsLeafKind(get_base_type(f.type)))

\* the largest number of fields of a type of the fetched schema
MaxFanOut ==
    LET sizes == {Len(schema[1].types[t].fields) : t \in 1..Len(schema[1].types)}
    IN  CHOOSE n \in sizes : \A m \in sizes : m <= n

\* the number of nodes of a tree of height MaxDepth with that fan-out
CallBound == 1 + MaxFanOut + MaxFanOut * MaxFanOut + MaxFanOut * MaxFanOut * MaxFanOut

\* C12: for every schema, the cyclic ones included, building the selection
\* set of an object-typed field terminates: the number of calls is finite,
\* a call at depth 3 returns empty without calling again, and no call is
\* made with a depth greater than 3.  Stated where the operations have just
\* been planned from the fetched schema.
SelectionSetTerminatesAtDepthBound ==
    (pc = "pass1" /\ i = 1) =>
        \A f \in 1..Len(ObjectTypedRootFields) :
            LET field_type == ObjectTypedRootFields[f].type
                calls == selection_set_calls(schema[1], field_type, 0)
            IN  /\ \A c \in 1..Len(calls) : calls[c] \in 0..MaxDepth
                /\ Len(calls) <= CallBound
                /\ build_selection_set(schema[1], field_type, MaxDepth) = <<>>
                /\ selection_set_calls(schema[1], field_type, MaxDepth) = <<MaxDepth>>

\* the operations were planned from a schema whose query root has a field of
\* the self-referential type User, and the builder went down the cycle
\* User.friends: [User] until depth 3
CyclicSchemaPlannedWitness ==
    /\ pc = "pass1"
    /\ i = 1
    /\ all_operations # <<>>
    /\ \E f \in 1..Len(QueryRootFields) :
          /\ get_base_type(QueryRootFields[f].type) = T_User
          /\ selection_set_calls(schema[1], QueryRootFields[f].type, 0) = <<0, 1, 2, 3>>
          /\ Contains(all_operations[f][1],
                      s_friends \o <<" ", "{", " ">> \o s_id \o <<" ">> \o s_username
                          \o <<" ">> \o s_friends \o <<" ", "{", " ">> \o s_id \o <<" ", "}">>)

\* the number of executed operations recorded as unsuccessful
FailedExecutions ==
    (Len(first_pass_results) - SuccessCount(first_pass_results))
        + (Len(second_pass_results) - SuccessCount(second_pass_results))

\* C13: in the summary of a completed run successful + failed equals
\* total_queries, and every skipped mutation is counted in failed as well as
\* in skipped_mutations: failed is the unsuccessful executions plus the
\* skipped mutations, so it is at least skipped_mutations, and with a skipped
\* mutation the three counts add up to more than the total.
SummaryCountsSkippedAsFailed ==
    pc = "done" =>
        /\ summary[1].successful + summary[1].failed = summary[1].total_queries
        /\ summary[1].skipped_mutations = Len(MutationRootFields)
        /\ summary[1].failed = FailedExecutions + summary[1].skipped_mutations
        /\ summary[1].failed >= summary[1].skipped_mutations
        /\ summary[1].skipped_mutations > 0 =>
               summary[1].successful + summary[1].failed + summary[1].skipped_mutations
                   > summary[1].total_queries

\* a completed run with a success, a failed execution and a skipped mutation
SkippedCountedAsFailedWitness ==
    /\ pc = "done"
    /\ summary[1].successful = 1
    /\ FailedExecutions = 1
    /\ summary[1].skipped_mutations = 1
    /\ summary[1].failed = 2
    /\ summary[1].total_queries = 3

====
